---- MODULE Spec2Model ----
(***************************************************************************)
(* cdk-ecr-asset-cleaner: the run of the cleaner (unnamed/part_000) as a   *)
(* state machine.  The three collectors run concurrently against the       *)
(* collaborator services, the driver joins them, reconciles the registry   *)
(* inventory against the usage set and, unless dryRun, deletes the unused  *)
(* tags in batches.                                                        *)
(*                                                                         *)
(* Strings are TLA+ strings (fmt.Sprintf is \o).  A Go pointer is Nil or   *)
(* a one-element sequence.  An error is the sequence of its causes (Nil is *)
(* the nil error, a multierr has several); a cause is the chain of         *)
(* messages fmt.Errorf("...: %w") has put around the collaborator's error. *)
(***************************************************************************)
EXTENDS Integers, Sequences, FiniteSets, TLC

\* ------------------------------------------------------------------ bounds

\* Repositories in the registry.
MaxRepos == 2
\* Task definitions registered with the orchestrator.
MaxTaskDefs == 2
\* Functions registered with the function service.
MaxFunctions == 2
\* Tags of the large repository.
MaxBulk == 250
\* Records the services put on one page of a repository, task-definition
\* or function listing.
SmallPage == 1
\* Image identifiers the registry puts on one page of an image listing.
LargePage == 100
\* -------------------------------------------------------- program constants

\* part_000:101  pager.Channel(tags, 100)
BatchSize == 100

\* ------------------------------------------------------------------ values

Nil == <<>>

Ptr(v) == <<v>>

Deref(p) == p[1]

Min(a, b) == IF a < b THEN a ELSE b

Range(seq) == { seq[i] : i \in 1..Len(seq) }

RECURSIVE Concat(_)
Concat(seqs) == IF seqs = <<>> THEN <<>> ELSE Head(seqs) \o Concat(Tail(seqs))

\* fmt.Errorf(msg + ": %w", err) around a single error.
Wrap(msg, err) == << <<msg>> \o err[1] >>

\* The error a collaborator call returns when it fails.
ApiError(op) == << <<op>> >>

\* Mutant of Combine: the third error is left out.
CombineTwo(e1, e2, e3) == e1 \o e2

\* Mutant of Combine: only the first error there is.
CombineFirst(e1, e2, e3) == IF e1 # Nil THEN e1 ELSE IF e2 # Nil THEN e2 ELSE e3

\* multierr.Combine: nil when every argument is nil, otherwise every
\* non-nil argument, in order.
Combine(e1, e2, e3) == e1 \o e2 \o e3

\* ------------------------------------------------- the collaborators' world

\* The tags t1 .. tn of the large repository, as image identifiers.
Bulk(n) == [i \in 1..n |-> Ptr("t" \o ToString(i))]

\* The repositories the registry may hold: name, URI and image identifiers
\* (ImageTag is Nil for an untagged image), in the registry's listing order.
RepoCatalogue ==
    << [Name |-> "big", URI |-> "big", ImageIds |-> Bulk(MaxBulk)],
       [Name |-> "svc", URI |-> "svc",
        ImageIds |-> <<Ptr("a"), Nil, Ptr("b"), Ptr("c")>>],
       [Name |-> "web", URI |-> "reg/web", ImageIds |-> <<Ptr("a")>>] >>

\* The task definitions the orchestrator may hold.  td2 names svc:a again,
\* svc:b in another case and svc:c by digest.
TaskDefCatalogue ==
    << [Arn |-> "td1",
        Containers |-> << [Name |-> "web", Image |-> "svc:a"] >>],
       [Arn |-> "td2",
        Containers |-> << [Name |-> "api", Image |-> "svc:a"],
                          [Name |-> "job", Image |-> "svc:B"],
                          [Name |-> "dig", Image |-> "svc@sha256:c"],
                          [Name |-> "edge", Image |-> "reg/web:a"] >>],
       [Arn |-> "td3",
        Containers |-> << [Name |-> "bulk", Image |-> "big:t100"] >>] >>

\* The functions the function service may hold.
FunctionCatalogue ==
    << [FunctionName |-> "resize", PackageType |-> "Image", ImageUri |-> Ptr("svc:c")],
       [FunctionName |-> "cron", PackageType |-> "Zip", ImageUri |-> Nil],
       [FunctionName |-> "thumb", PackageType |-> "Image", ImageUri |-> Ptr("big:t1")] >>

RECURSIVE PickIdx(_, _, _)
PickIdx(cat, S, i) ==
    IF i > Len(cat) THEN <<>>
    ELSE (IF i \in S THEN <<cat[i]>> ELSE <<>>) \o PickIdx(cat, S, i + 1)

\* Every selection of at most max records of a catalogue, in catalogue order.
Selections(cat, max) ==
    { PickIdx(cat, S, 1) : S \in { T \in SUBSET (1..Len(cat)) : Cardinality(T) <= max } }

\* The first k records of a catalogue, for every k up to max.
Prefixes(cat, max) == { SubSeq(cat, 1, k) : k \in 0..Min(max, Len(cat)) }

Registries == Selections(RepoCatalogue, MaxRepos)

TaskDefWorlds == Prefixes(TaskDefCatalogue, MaxTaskDefs)

FunctionWorlds == Prefixes(FunctionCatalogue, MaxFunctions)

\* ------------------------------------------------ the services' paginators

\* One page of a listing: the records after the cursor, at most limit of
\* them, and the cursor of the next page (Nil on the last page).
ServicePage(list, limit, token) ==
    LET from == IF token = Nil THEN 0 ELSE Deref(token)
        to   == Min(from + limit, Len(list))
    IN  [Items |-> SubSeq(list, from + 1, to),
         NextToken |-> IF to < Len(list) THEN Ptr(to) ELSE Nil]

NewPaginator == [firstPage |-> TRUE, nextToken |-> Nil]

HasMorePages(p) == p.firstPage \/ p.nextToken # Nil

\* A successful p.NextPage(ctx): the page, and the paginator moved on.
NextPage(p, list, limit) ==
    LET op == ServicePage(list, limit, p.nextToken)
    IN  [p |-> [firstPage |-> FALSE, nextToken |-> op.NextToken], op |-> op]

\* A collector's collaborator calls, in order.  Call number failAt fails
\* (0: none does); calls is the log of the calls made so far.
ApiCall(op, arg, token) == [op |-> op, arg |-> arg, token |-> token]

Fails(calls, failAt) == Len(calls) + 1 = failAt

\* ------------------------------------------- the registry inventory collector

\* The image identifiers the registry lists for a repository name.
ImageIdsOf(registry, repositoryName) ==
    LET i == CHOOSE i \in 1..Len(registry) : registry[i].Name = repositoryName
    IN  registry[i].ImageIds

\* The loop of getRepositories: a page per iteration, its repositories
\* appended to result; a failed page ends it with what result holds so far.
RECURSIVE getRepositoriesLoop(_, _, _, _, _)
getRepositoriesLoop(registry, failAt, p, result, calls) ==
    IF ~HasMorePages(p)
    THEN [result |-> result, err |-> Nil, calls |-> calls]
    ELSE LET made == Append(calls, ApiCall("DescribeRepositories", "", p.nextToken))
         IN  IF Fails(calls, failAt)
             THEN [result |-> result,
                   err |-> Wrap("failed to describe repositories",
                                ApiError("DescribeRepositories")),
                   calls |-> made]
             ELSE LET np == NextPage(p, registry, SmallPage)
                      rs == [i \in 1..Len(np.op.Items) |->
                                [URI |-> np.op.Items[i].URI, Name |-> np.op.Items[i].Name]]
                  IN  getRepositoriesLoop(registry, failAt, np.p, result \o rs, made)

getRepositories(registry, failAt, calls) ==
    getRepositoriesLoop(registry, failAt, NewPaginator, <<>>, calls)

\* The tags of one page of image identifiers: an identifier with no tag is
\* left out.
PageTags(ids) ==
    LET tagged == SelectSeq(ids, LAMBDA id : id # Nil)
    IN  [i \in 1..Len(tagged) |-> Deref(tagged[i])]

RECURSIVE getRepositoryImagesLoop(_, _, _, _, _, _)
getRepositoryImagesLoop(registry, failAt, repositoryName, p, result, calls) ==
    IF ~HasMorePages(p)
    THEN [result |-> result, err |-> Nil, calls |-> calls]
    ELSE LET made == Append(calls, ApiCall("ListImages", repositoryName, p.nextToken))
         IN  IF Fails(calls, failAt)
             THEN [result |-> result,
                   err |-> Wrap("failed to list tasks", ApiError("ListImages")),
                   calls |-> made]
             ELSE LET np == NextPage(p, ImageIdsOf(registry, repositoryName), LargePage)
                  IN  getRepositoryImagesLoop(registry, failAt, repositoryName, np.p,
                                              result \o PageTags(np.op.Items), made)

getRepositoryImages(registry, failAt, repositoryName, calls) ==
    getRepositoryImagesLoop(registry, failAt, repositoryName, NewPaginator, <<>>, calls)

\* Mutant of RepoImages: the URI is built from the repository's name.
RepoImagesByName(repo, tags) ==
    [j \in 1..Len(tags) |->
        [Repo |-> repo, URI |-> repo.Name \o ":" \o tags[j], Tag |-> tags[j]]]

\* The images of one repository: URI is fmt.Sprintf("%s:%s", repo.URI, tag).
RepoImages(repo, tags) ==
    [j \in 1..Len(tags) |->
        [Repo |-> repo, URI |-> repo.URI \o ":" \o tags[j], Tag |-> tags[j]]]

\* The loop of getAllImages over the repositories; fetched is the log of
\* what each fetcher returned.
RECURSIVE getAllImagesLoop(_, _, _, _, _, _, _)
getAllImagesLoop(registry, failAt, repositories, i, images, calls, fetched) ==
    IF i > Len(repositories)
    THEN [images |-> images, err |-> Nil, calls |-> calls, fetched |-> fetched]
    ELSE LET t == getRepositoryImages(registry, failAt, repositories[i].Name, calls)
             ret == [fetcher |-> "getRepositoryImages", arg |-> repositories[i].Name,
                     result |-> t.result, err |-> t.err, from |-> Len(calls)]
         IN  IF t.err # Nil
             THEN [images |-> images,
                   err |-> Wrap("failed to describe repositories", t.err),
                   calls |-> t.calls, fetched |-> Append(fetched, ret)]
             ELSE getAllImagesLoop(registry, failAt, repositories, i + 1,
                                   images \o RepoImages(repositories[i], t.result),
                                   t.calls, Append(fetched, ret))

getAllImages(registry, failAt) ==
    LET r == getRepositories(registry, failAt, <<>>)
        ret == [fetcher |-> "getRepositories", arg |-> "",
                result |-> r.result, err |-> r.err, from |-> 0]
    IN  IF r.err # Nil
        THEN [images |-> Nil, err |-> Wrap("failed to get repositories", r.err),
              calls |-> r.calls, fetched |-> <<ret>>]
        ELSE getAllImagesLoop(registry, failAt, r.result, 1, <<>>, r.calls, <<ret>>)

\* ------------------------------------------ the orchestrator usage collector

\* The collaborator's description of a task definition ARN.
TaskDefinitionOf(taskDefs, arn) ==
    LET i == CHOOSE i \in 1..Len(taskDefs) : taskDefs[i].Arn = arn
    IN  taskDefs[i]

\* The inner loop of getInUseImages over one page of ARNs: a failed
\* describe returns (nil, err), the error as the collaborator gave it.
RECURSIVE describePage(_, _, _, _, _, _)
describePage(taskDefs, failAt, arns, i, images, calls) ==
    IF i > Len(arns)
    THEN [images |-> images, err |-> Nil, calls |-> calls]
    ELSE LET made == Append(calls, ApiCall("DescribeTaskDefinition", arns[i], Nil))
         IN  IF Fails(calls, failAt)
             THEN [images |-> Nil, err |-> ApiError("DescribeTaskDefinition"),
                   calls |-> made]
             ELSE LET defs == TaskDefinitionOf(taskDefs, arns[i]).Containers
                      used == [k \in 1..Len(defs) |->
                                  [ImageName |-> defs[k].Name, Image |-> defs[k].Image]]
                  IN  describePage(taskDefs, failAt, arns, i + 1, images \o used, made)

RECURSIVE getInUseImagesLoop(_, _, _, _, _)
getInUseImagesLoop(taskDefs, failAt, p, images, calls) ==
    IF ~HasMorePages(p)
    THEN [images |-> images, err |-> Nil, calls |-> calls]
    ELSE LET made == Append(calls, ApiCall("ListTaskDefinitions", "", p.nextToken))
         IN  IF Fails(calls, failAt)
             THEN [images |-> images,
                   err |-> Wrap("failed to list task definitions",
                                ApiError("ListTaskDefinitions")),
                   calls |-> made]
             ELSE LET np == NextPage(p, taskDefs, SmallPage)
                      arns == [i \in 1..Len(np.op.Items) |-> np.op.Items[i].Arn]
                      d == describePage(taskDefs, failAt, arns, 1, images, made)
                  IN  IF d.err # Nil THEN d
                      ELSE getInUseImagesLoop(taskDefs, failAt, np.p, d.images, d.calls)

getInUseImages(taskDefs, failAt) ==
    getInUseImagesLoop(taskDefs, failAt, NewPaginator, <<>>, <<>>)

\* ---------------------------------------------- the function usage collector

\* The collaborator's details of a function name.
FunctionOf(functions, name) ==
    LET i == CHOOSE i \in 1..Len(functions) : functions[i].FunctionName = name
    IN  functions[i]

\* Mutant of Skipped: every function is passed over.
SkippedAlways(f) == TRUE

\* getInUseImagesLambda, lines 259-261: the functions the loop passes over.
Skipped(f) == f.PackageType # "Image"

\* The inner loop of getInUseImagesLambda over one page of functions: only
\* a function of package type "Image" is fetched.
RECURSIVE getFunctionPage(_, _, _, _, _, _)
getFunctionPage(functions, failAt, fs, i, inUseImages, calls) ==
    IF i > Len(fs)
    THEN [inUseImages |-> inUseImages, err |-> Nil, calls |-> calls]
    ELSE IF Skipped(fs[i])
    THEN getFunctionPage(functions, failAt, fs, i + 1, inUseImages, calls)
    ELSE LET made == Append(calls, ApiCall("GetFunction", fs[i].FunctionName, Nil))
         IN  IF Fails(calls, failAt)
             THEN [inUseImages |-> inUseImages,
                   err |-> Wrap("failed to get function \"" \o fs[i].FunctionName \o "\"",
                                ApiError("GetFunction")),
                   calls |-> made]
             ELSE LET gfo == FunctionOf(functions, fs[i].FunctionName)
                      used == [FunctionName |-> fs[i].FunctionName,
                               Container |-> Deref(gfo.ImageUri)]
                  IN  getFunctionPage(functions, failAt, fs, i + 1,
                                      Append(inUseImages, used), made)

RECURSIVE getInUseImagesLambdaLoop(_, _, _, _, _)
getInUseImagesLambdaLoop(functions, failAt, p, inUseImages, calls) ==
    IF ~HasMorePages(p)
    THEN [inUseImages |-> inUseImages, err |-> Nil, calls |-> calls]
    ELSE LET made == Append(calls, ApiCall("ListFunctions", "", p.nextToken))
         IN  IF Fails(calls, failAt)
             THEN [inUseImages |-> inUseImages,
                   err |-> Wrap("failed to list functions", ApiError("ListFunctions")),
                   calls |-> made]
             ELSE LET np == NextPage(p, functions, SmallPage)
                      fs == [i \in 1..Len(np.op.Items) |->
                                [FunctionName |-> np.op.Items[i].FunctionName,
                                 PackageType |-> np.op.Items[i].PackageType]]
                      g == getFunctionPage(functions, failAt, fs, 1, inUseImages, made)
                  IN  IF g.err # Nil THEN g
                      ELSE getInUseImagesLambdaLoop(functions, failAt, np.p,
                                                    g.inUseImages, g.calls)

getInUseImagesLambda(functions, failAt) ==
    getInUseImagesLambdaLoop(functions, failAt, NewPaginator, <<>>, <<>>)

\* ------------------------------------------------------ reconciliation

\* A line of standard output: the format and its arguments, as printed.
Line1(format) == <<format>>

Line2(format, a) == <<format, a>>

Line3(format, a, b) == <<format, a, b>>

\* A Go map read: the zero value for a missing key.
MapGet(m, k) == IF k \in DOMAIN m THEN m[k] ELSE <<>>

\* run, lines 63-73: the usage set and the report of what is in use.
UsageSet(ecs, lambda) ==
    { ecs[i].Image : i \in 1..Len(ecs) } \cup { lambda[i].Container : i \in 1..Len(lambda) }

UsageReport(ecs, lambda) ==
    <<Line1("Images in use (ECS):")>>
    \o [i \in 1..Len(ecs) |-> Line3("  %v %v", ecs[i].ImageName, ecs[i].Image)]
    \o <<Line1("Images in use (Lambda):")>>
    \o [i \in 1..Len(lambda) |->
           Line3("  %v %v", lambda[i].FunctionName, lambda[i].Container)]

\* Mutant of InUse: the references are compared without regard to case.
FoldCase(str) == IF str = "svc:B" THEN "svc:b" ELSE str

InUseFolded(inUseMap, img) == FoldCase(img.URI) \in { FoldCase(u) : u \in inUseMap }

\* Mutant of InUse: nothing is found in the usage set.
InUseNever(inUseMap, img) == FALSE

\* run, line 80: the test that keeps an image out of the unused groups.
InUse(inUseMap, img) == img.URI \in inUseMap

\* Mutant of classify: an unused image is put at the front of its
\* repository's list.
classifyPrepend(images, inUseMap) ==
    LET unused == SelectSeq(images, LAMBDA img : ~InUse(inUseMap, img))
        names  == { unused[i].Repo.Name : i \in 1..Len(unused) }
        group(n) == SelectSeq(unused, LAMBDA img : img.Repo.Name = n)
    IN  [repoNames |-> names,
         unusedImagesByRepoName |->
             [n \in names |-> [k \in 1..Len(group(n)) |-> group(n)[Len(group(n)) + 1 - k]]],
         unusedImageCount |-> Len(unused),
         stdout |-> <<Line1("Images that aren't used in ECS:")>>
                    \o [i \in 1..Len(unused) |-> Line2("  %v", unused[i].URI)]]

\* run, lines 75-86: what the loop over the inventory leaves in its four
\* accumulators.  Each image that is not in use is appended, in inventory
\* order, to the list of its repository and to the report, adds its
\* repository to repoNames and counts one.
classify(images, inUseMap) ==
    LET unused == SelectSeq(images, LAMBDA img : ~InUse(inUseMap, img))
        names  == { unused[i].Repo.Name : i \in 1..Len(unused) }
    IN  [repoNames |-> names,
         unusedImagesByRepoName |->
             [n \in names |-> SelectSeq(unused, LAMBDA img : img.Repo.Name = n)],
         unusedImageCount |-> Len(unused),
         stdout |-> <<Line1("Images that aren't used in ECS:")>>
                    \o [i \in 1..Len(unused) |-> Line2("  %v", unused[i].URI)]]

\* ------------------------------------------------------------ deletion

\* pager.Channel(values, pageSize): the pages the channel delivers, in order.
RECURSIVE Channel(_, _)
Channel(values, pageSize) ==
    IF Len(values) = 0 THEN <<>>
    ELSE <<SubSeq(values, 1, Min(pageSize, Len(values)))>>
         \o Channel(SubSeq(values, Min(pageSize, Len(values)) + 1, Len(values)), pageSize)

\* Mutant of TagPages: the page size is ten times the batch size.
TagPagesWide(tags) == Channel(tags, 10 * BatchSize)

\* run, line 101: pager.Channel(tags, 100).
TagPages(tags) == Channel(tags, BatchSize)

\* Mutant of TagsOf: every element is the tag of the first image.
TagsOfFirst(unusedImages) == [i \in 1..Len(unusedImages) |-> unusedImages[1].Tag]

\* run, lines 96-99.
TagsOf(unusedImages) == [i \in 1..Len(unusedImages) |-> unusedImages[i].Tag]

\* The registry after a successful BatchDeleteImage of tags in repoName.
Untag(registry, repoName, tags) ==
    LET gone == { tags[i] : i \in 1..Len(tags) }
    IN  [r \in 1..Len(registry) |->
            IF registry[r].Name = repoName
            THEN [registry[r] EXCEPT !.ImageIds =
                     SelectSeq(@, LAMBDA id : id = Nil \/ Deref(id) \notin gone)]
            ELSE registry[r]]

\* deleteImages: one BatchDeleteImage call for the tags; ok is the
\* collaborator's answer.
deleteImages(registry, repoName, tags, ok) ==
    IF ok THEN [err |-> Nil, registry |-> Untag(registry, repoName, tags)]
    ELSE [err |-> ApiError("BatchDeleteImage " \o repoName \o " " \o tags[1]),
          registry |-> registry]

\* run, lines 103-106: the value of err after one pass of the batch loop.
BatchErr(err) ==
    IF err # Nil THEN Wrap("failed to delete image tags", err) ELSE err

\* --------------------------------------------------------------- state

VARIABLES
    registry,                  \* the registry: repositories and their image identifiers
    taskDefs,                  \* the orchestrator's task definitions
    functions,                 \* the function service's functions
    dryRun,                    \* run's parameter (the --dryrun flag)
    pc,                        \* where run is
    wg,                        \* the WaitGroup's counter
    running,                   \* the collector goroutines that have not finished
    allImages, allImagesErr,                   \* the registry collector's slots
    inUseImagesECS, inUseImagesECSErr,         \* the orchestrator collector's slots
    inUseImagesLambda, inUseImagesLambdaErr,   \* the function collector's slots
    calls,                     \* each collector's collaborator calls, in order
    fetched,                   \* what each paginated fetcher of the registry collector returned
    err,                       \* run's named result
    inUseImagesByContainerMap,
    repoNames,
    unusedImagesByRepoName,
    unusedImageCount,
    pending,                   \* the keys of repoNames the range has not reached
    repoName,                  \* the key the range is at
    tagPages,                  \* the pages pager.Channel has not delivered yet
    deleteCalls,               \* the BatchDeleteImage calls made, in order
    stdout,                    \* the lines printed
    prev,                      \* the inputs and the report of the run before this one
    ecsClusters,               \* the orchestrator's clusters, for the cluster-centric collector
    frame                      \* the cluster-centric getInUseImages: its position and locals

world == <<registry, taskDefs, functions>>

slots == <<allImages, allImagesErr, inUseImagesECS, inUseImagesECSErr,
           inUseImagesLambda, inUseImagesLambdaErr>>

collect == <<wg, running, calls, fetched>>

recon == <<inUseImagesByContainerMap, repoNames, unusedImagesByRepoName,
           unusedImageCount>>

sweep == <<pending, repoName, tagPages, deleteCalls>>

history == <<prev>>

variant == <<ecsClusters, frame>>

vars == <<world, dryRun, pc, slots, collect, err, recon, sweep, stdout, history, variant>>

Collectors == {"registry", "ecs", "lambda"}

\* The state of run's variables as the function is entered.
Entered ==
    /\ pc = "main"
    /\ wg = 0
    /\ running = {}
    /\ allImages = Nil /\ allImagesErr = Nil
    /\ inUseImagesECS = Nil /\ inUseImagesECSErr = Nil
    /\ inUseImagesLambda = Nil /\ inUseImagesLambdaErr = Nil
    /\ calls = [c \in Collectors |-> <<>>]
    /\ fetched = <<>>
    /\ err = Nil
    /\ inUseImagesByContainerMap = {}
    /\ repoNames = {}
    /\ unusedImagesByRepoName = <<>>
    /\ unusedImageCount = 0
    /\ pending = {}
    /\ repoName = ""
    /\ tagPages = <<>>
    /\ deleteCalls = <<>>
    /\ stdout = <<>>

\* The cluster-centric collector is not part of this build of the tool.
NotBuilt == [pc |-> "none"]

Init ==
    /\ registry \in Registries
    /\ taskDefs \in TaskDefWorlds
    /\ functions \in FunctionWorlds
    /\ dryRun \in BOOLEAN
    /\ prev = Nil
    /\ Entered
    /\ ecsClusters = <<>>
    /\ frame = NotBuilt

\* ------------------------------------------------------------- the driver

\* run, lines 33-37: the SDK configuration cannot be loaded.
LoadConfigFails ==
    /\ pc = "main"
    /\ err' = Wrap("unable to load SDK config", ApiError("LoadDefaultConfig"))
    /\ pc' = "done"
    /\ UNCHANGED <<world, dryRun, slots, collect, recon, sweep, stdout, history, variant>>

\* Mutant of LaunchCount: the WaitGroup awaits one collector less than are
\* launched.
LaunchCountShort == 3 - 1

\* run, lines 39-56: wg.Add(3) and the three go statements.
LaunchCount == 3

Launch ==
    /\ pc = "main"
    /\ wg' = LaunchCount
    /\ running' = Collectors
    /\ pc' = "wait"
    /\ UNCHANGED <<world, dryRun, slots, calls, fetched, err, recon, sweep, stdout, history, variant>>

\* Mutant of Done: a collector that failed does not signal.
DoneUnlessFailed(counter, collectorErr) ==
    IF collectorErr # Nil THEN counter ELSE counter - 1

\* run, lines 46, 50 and 54: the deferred wg.Done() of a collector goroutine,
\* which runs whatever the collector returned.
Done(counter, collectorErr) == counter - 1

\* run, lines 45-48: the registry goroutine, from its start to wg.Done().
CollectRegistry ==
    /\ "registry" \in running
    /\ \E failAt \in 0..Len(getAllImages(registry, 0).calls) :
         LET r == getAllImages(registry, failAt)
         IN  /\ allImages' = r.images
             /\ allImagesErr' = r.err
             /\ calls' = [calls EXCEPT !["registry"] = r.calls]
             /\ fetched' = r.fetched
             /\ wg' = Done(wg, r.err)
    /\ running' = running \ {"registry"}
    /\ UNCHANGED <<world, dryRun, pc, inUseImagesECS, inUseImagesECSErr,
                   inUseImagesLambda, inUseImagesLambdaErr, err, recon, sweep,
                   stdout, history, variant>>

\* run, lines 49-52: the orchestrator goroutine.
CollectECS ==
    /\ "ecs" \in running
    /\ \E failAt \in 0..Len(getInUseImages(taskDefs, 0).calls) :
         LET r == getInUseImages(taskDefs, failAt)
         IN  /\ inUseImagesECS' = r.images
             /\ inUseImagesECSErr' = r.err
             /\ calls' = [calls EXCEPT !["ecs"] = r.calls]
             /\ wg' = Done(wg, r.err)
    /\ running' = running \ {"ecs"}
    /\ UNCHANGED <<world, dryRun, pc, allImages, allImagesErr, inUseImagesLambda,
                   inUseImagesLambdaErr, fetched, err, recon, sweep, stdout, history, variant>>

\* run, lines 53-56: the function goroutine.
CollectLambda ==
    /\ "lambda" \in running
    /\ \E failAt \in 0..Len(getInUseImagesLambda(functions, 0).calls) :
         LET r == getInUseImagesLambda(functions, failAt)
         IN  /\ inUseImagesLambda' = r.inUseImages
             /\ inUseImagesLambdaErr' = r.err
             /\ calls' = [calls EXCEPT !["lambda"] = r.calls]
             /\ wg' = Done(wg, r.err)
    /\ running' = running \ {"lambda"}
    /\ UNCHANGED <<world, dryRun, pc, allImages, allImagesErr, inUseImagesECS,
                   inUseImagesECSErr, fetched, err, recon, sweep, stdout, history, variant>>

\* Mutant of WaitReturns: the wait is over while one collector still runs.
WaitReturnsEarly(counter) == counter <= 1

\* wg.Wait() returns when the counter is zero.
WaitReturns(counter) == counter = 0

\* run, lines 57-61: the join, and the check of the collectors' errors.
Join ==
    /\ pc = "wait"
    /\ WaitReturns(wg)
    /\ err' = Combine(allImagesErr, inUseImagesECSErr, inUseImagesLambdaErr)
    /\ pc' = IF err' # Nil THEN "done" ELSE "usage"
    /\ UNCHANGED <<world, dryRun, slots, collect, recon, sweep, stdout, history, variant>>

\* run, lines 63-73.
BuildUsage ==
    /\ pc = "usage"
    /\ inUseImagesByContainerMap' = UsageSet(inUseImagesECS, inUseImagesLambda)
    /\ stdout' = stdout \o UsageReport(inUseImagesECS, inUseImagesLambda)
    /\ pc' = "classify"
    /\ UNCHANGED <<world, dryRun, slots, collect, err, repoNames,
                   unusedImagesByRepoName, unusedImageCount, sweep, history, variant>>

\* run, lines 75-86.
Classify ==
    /\ pc = "classify"
    /\ LET c == classify(allImages, inUseImagesByContainerMap)
       IN  /\ repoNames' = c.repoNames
           /\ unusedImagesByRepoName' = c.unusedImagesByRepoName
           /\ unusedImageCount' = c.unusedImageCount
           /\ stdout' = stdout \o c.stdout
    /\ pc' = "act"
    /\ UNCHANGED <<world, dryRun, slots, collect, err, inUseImagesByContainerMap,
                   sweep, history, variant>>

\* Mutant of Sweeps: the sweep is entered whatever the flag.
SweepsAlways(flag) == TRUE

\* run, line 88: whether the deletion sweep is entered.
Sweeps(flag) == ~flag

\* run, line 88, dryRun: nothing is deleted.
SkipSweep ==
    /\ pc = "act"
    /\ ~Sweeps(dryRun)
    /\ pc' = "return"
    /\ UNCHANGED <<world, dryRun, slots, collect, err, recon, sweep, stdout, history, variant>>

\* run, lines 88-90: the sweep starts its range over repoNames.
StartSweep ==
    /\ pc = "act"
    /\ Sweeps(dryRun)
    /\ stdout' = Append(stdout, Line2("Deleting %d unused images...",
                                      ToString(unusedImageCount)))
    /\ pending' = repoNames
    /\ pc' = "sweep"
    /\ UNCHANGED <<world, dryRun, slots, collect, err, recon, repoName, tagPages,
                   deleteCalls, history, variant>>

\* run, lines 90-101: the range reaches a key, in any order; a repository
\* with no unused image is passed over.
RangeRepo ==
    /\ pc = "sweep"
    /\ tagPages = <<>>
    /\ \E name \in pending :
         LET unusedImages == MapGet(unusedImagesByRepoName, name)
         IN  /\ pending' = pending \ {name}
             /\ repoName' = name
             /\ IF Len(unusedImages) = 0
                THEN UNCHANGED <<tagPages, stdout>>
                ELSE /\ tagPages' = TagPages(TagsOf(unusedImages))
                     /\ stdout' = Append(stdout,
                            Line3("  %s - deleting %d tags...", name,
                                  ToString(Len(unusedImages))))
    /\ UNCHANGED <<world, dryRun, pc, slots, collect, err, recon, deleteCalls, history, variant>>

\* Mutant of RestAfter: a failed batch ends the loop over the pages.
RestAfterBreaks(pages, batchErr) == IF batchErr # Nil THEN <<>> ELSE Tail(pages)

\* Mutant of RestAfter: the range over the channel ends after its first
\* page.
RestAfterFirstPage(pages, batchErr) == <<>>

\* run, lines 101-107: the pages the range over the channel still has to
\* deliver after a pass whose err is batchErr.
RestAfter(pages, batchErr) == Tail(pages)

\* run, lines 101-107: one page of the channel, one deleteImages call.
DeleteBatch ==
    /\ pc = "sweep"
    /\ tagPages # <<>>
    /\ \E ok \in BOOLEAN :
         LET tagPage == Head(tagPages)
             d == deleteImages(registry, repoName, tagPage, ok)
         IN  /\ stdout' = Append(stdout, Line2("    deleting batch of %d tags...",
                                               ToString(Len(tagPage))))
             /\ deleteCalls' = Append(deleteCalls,
                    [repoName |-> repoName, tags |-> tagPage, err |-> d.err])
             /\ registry' = d.registry
             /\ err' = BatchErr(d.err)
             /\ tagPages' = RestAfter(tagPages, d.err)
    /\ UNCHANGED <<taskDefs, functions, dryRun, pc, slots, collect, recon, pending,
                   repoName, history, variant>>

\* The number of tags of the delete calls that did not fail.
RECURSIVE Succeeded(_)
Succeeded(madeCalls) ==
    IF madeCalls = <<>> THEN 0
    ELSE (IF Head(madeCalls).err = Nil THEN Len(Head(madeCalls).tags) ELSE 0)
         + Succeeded(Tail(madeCalls))

\* Mutant of DeletedCount: the tags whose delete call succeeded are counted.
DeletedCountSucceeded(count, madeCalls) == Succeeded(madeCalls)

\* run, line 109: the number the summary line reports.
DeletedCount(count, madeCalls) == count

\* run, line 109: the range over repoNames is over.
EndSweep ==
    /\ pc = "sweep"
    /\ tagPages = <<>>
    /\ pending = {}
    /\ stdout' = Append(stdout, Line2("Deleted %d unused images.",
                                      ToString(DeletedCount(unusedImageCount,
                                                            deleteCalls))))
    /\ pc' = "return"
    /\ UNCHANGED <<world, dryRun, slots, collect, err, recon, sweep, history, variant>>

\* run, lines 112-114.
Return ==
    /\ pc = "return"
    /\ stdout' = Append(stdout, Line1(""))
    /\ pc' = "done"
    /\ UNCHANGED <<world, dryRun, slots, collect, err, recon, sweep, history, variant>>

\* The unused image URIs a run has reported, in order.
Reported(out) ==
    LET ls == SelectSeq(out, LAMBDA l : l[1] = "  %v")
    IN  [i \in 1..Len(ls) |-> ls[i][2]]

\* A run that ended with no error and no failed delete call.
Clean ==
    /\ pc = "done"
    /\ err = Nil
    /\ \A i \in 1..Len(deleteCalls) : deleteCalls[i].err = Nil

\* main, a second time: after a clean run the tool is run once more against
\* the same account.  What the first run was given and what it reported is
\* kept for comparison.
Restart ==
    /\ prev = Nil
    /\ Clean
    /\ prev' = [dryRun |-> dryRun, allImages |-> allImages,
                inUse |-> inUseImagesByContainerMap,
                unused |-> Reported(stdout),
                groups |-> unusedImagesByRepoName,
                deleted |-> Len(deleteCalls)]
    /\ dryRun' \in BOOLEAN
    /\ pc' = "main"
    /\ wg' = 0
    /\ running' = {}
    /\ allImages' = Nil /\ allImagesErr' = Nil
    /\ inUseImagesECS' = Nil /\ inUseImagesECSErr' = Nil
    /\ inUseImagesLambda' = Nil /\ inUseImagesLambdaErr' = Nil
    /\ calls' = [c \in Collectors |-> <<>>]
    /\ fetched' = <<>>
    /\ err' = Nil
    /\ inUseImagesByContainerMap' = {}
    /\ repoNames' = {}
    /\ unusedImagesByRepoName' = <<>>
    /\ unusedImageCount' = 0
    /\ pending' = {}
    /\ repoName' = ""
    /\ tagPages' = <<>>
    /\ deleteCalls' = <<>>
    /\ stdout' = <<>>
    /\ UNCHANGED <<world, variant>>

Next ==
    \/ LoadConfigFails
    \/ Launch
    \/ CollectRegistry
    \/ CollectECS
    \/ CollectLambda
    \/ Join
    \/ BuildUsage
    \/ Classify
    \/ SkipSweep
    \/ StartSweep
    \/ RangeRepo
    \/ DeleteBatch
    \/ EndSweep
    \/ Return
    \/ Restart

Spec == Init /\ [][Next]_vars

\* ------------------------------------- the cluster-centric collector (main.go)

\* The number of clusters of the orchestrator.
MaxClusters == 2
\* The page size of the service and task listings.
ClusterPage == 7
\* The number of services of the first cluster.
ManyServices == 12
\* The number of tasks of its first service.
ManyTasks == 25

\* main.go, lines 214 and 230: the size of a describe batch.
DescribeBatch == 10

\* The tasks of service number i of cluster c: many for the first, none for
\* the second, one with two containers for the others.
ServiceTasks(c, i) ==
    IF i = 1
    THEN [j \in 1..ManyTasks |->
             [Arn |-> c \o "/n1/t" \o ToString(j), Images |-> <<"big:t" \o ToString(j)>>]]
    ELSE IF i = 2 THEN <<>>
    ELSE <<[Arn |-> c \o "/n" \o ToString(i) \o "/t1", Images |-> <<"svc:a", "reg/web:a">>]>>

ClusterCatalogue ==
    << [Arn |-> "c1",
        Services |-> [i \in 1..ManyServices |->
                         [Arn |-> "c1/s" \o ToString(i), Name |-> "n" \o ToString(i),
                          Tasks |-> ServiceTasks("c1", i)]]],
       [Arn |-> "c2",
        Services |-> <<[Arn |-> "c2/s1", Name |-> "x",
                        Tasks |-> <<[Arn |-> "c2/x/t1", Images |-> <<"svc:c">>]>>]>>] >>

ClusterWorlds == Prefixes(ClusterCatalogue, MaxClusters)

\* The orchestrator's records of a cluster ARN, and of a service name in it.
ClusterOf(ecs, arn) ==
    LET i == CHOOSE i \in 1..Len(ecs) : ecs[i].Arn = arn
    IN  ecs[i]

ServiceOf(ecs, cluster, name) ==
    LET ss == ClusterOf(ecs, cluster).Services
        i == CHOOSE i \in 1..Len(ss) : ss[i].Name = name
    IN  ss[i]

\* A call of the collector to the orchestrator: the operation, the cluster
\* and service it is about, the cursor of a list call, the ARNs of a
\* describe call, and whether it failed.
EcsCall(op, cluster, service, token, arns, failed) ==
    [op |-> op, cluster |-> cluster, service |-> service, token |-> token,
     arns |-> arns, failed |-> failed]

\* The loop of a paginated fetcher of main.go (getClusters,
\* getClusterServices, getClusterServiceTaskARNs): a page per iteration,
\* appended to result; page number failAt fails and ends the loop with what
\* result holds.  tokens are the cursors of the calls made.
RECURSIVE listPages(_, _, _, _, _, _)
listPages(list, limit, failAt, p, result, tokens) ==
    IF ~HasMorePages(p)
    THEN [result |-> result, failed |-> FALSE, tokens |-> tokens]
    ELSE IF Len(tokens) + 1 = failAt
    THEN [result |-> result, failed |-> TRUE, tokens |-> Append(tokens, p.nextToken)]
    ELSE LET np == NextPage(p, list, limit)
         IN  listPages(list, limit, failAt, np.p, result \o np.op.Items,
                       Append(tokens, p.nextToken))

\* The number of pages of a listing.
PagesOf(list, limit) == Len(listPages(list, limit, 0, NewPaginator, <<>>, <<>>).tokens)

\* What a fetcher returns: its named results, and the calls it made.
Fetched(l, op, cluster, service, msg) ==
    [result |-> l.result,
     err |-> IF l.failed THEN Wrap(msg, ApiError(op)) ELSE Nil,
     calls |-> [k \in 1..Len(l.tokens) |->
                   EcsCall(op, cluster, service, l.tokens[k], <<>>,
                           l.failed /\ k = Len(l.tokens))]]

getClusters(ecs, failAt) ==
    Fetched(listPages([i \in 1..Len(ecs) |-> ecs[i].Arn], SmallPage, failAt,
                      NewPaginator, <<>>, <<>>),
            "ListClusters", "", "", "failed to list clusters")

getClusterServices(ecs, cluster, failAt) ==
    LET ss == ClusterOf(ecs, cluster).Services
    IN  Fetched(listPages([i \in 1..Len(ss) |-> ss[i].Arn], ClusterPage, failAt,
                          NewPaginator, <<>>, <<>>),
                "ListServices", cluster, "", "failed to list clusters")

getClusterServiceTaskARNs(ecs, cluster, service, failAt) ==
    LET ts == ServiceOf(ecs, cluster, service).Tasks
    IN  Fetched(listPages([i \in 1..Len(ts) |-> ts[i].Arn], ClusterPage, failAt,
                          NewPaginator, <<>>, <<>>),
                "ListTasks", cluster, service, "failed to list tasks")

\* getClusterServiceNames: one DescribeServices call for a batch of service
\* ARNs; its error is returned as it is.
getClusterServiceNames(ecs, cluster, services, ok) ==
    LET ss == ClusterOf(ecs, cluster).Services
        name(arn) == ss[CHOOSE i \in 1..Len(ss) : ss[i].Arn = arn].Name
    IN  IF ok
        THEN [result |-> [k \in 1..Len(services) |-> name(services[k])], err |-> Nil]
        ELSE [result |-> <<>>, err |-> ApiError("DescribeServices")]

\* getClusterTaskContainerARNs: one DescribeTasks call for a batch of task
\* ARNs; the images of the containers of the tasks, in order.
getClusterTaskContainerARNs(ecs, cluster, taskARNs, ok) ==
    LET ts == Concat([i \in 1..Len(ClusterOf(ecs, cluster).Services) |->
                         ClusterOf(ecs, cluster).Services[i].Tasks])
        images(arn) == ts[CHOOSE i \in 1..Len(ts) : ts[i].Arn = arn].Images
    IN  IF ok
        THEN [result |-> Concat([k \in 1..Len(taskARNs) |-> images(taskARNs[k])]),
              err |-> Nil]
        ELSE [result |-> <<>>,
              err |-> Wrap("failed to get cluster task descriptions",
                           ApiError("DescribeTasks"))]

\* pager.New(values, pageSize): the pages the channel delivers, in order.
New(values, pageSize) == Channel(values, pageSize)

\* Mutant of DescribeBatches: all the ARNs go in one batch.
DescribeBatchesWhole(arns) == IF arns = <<>> THEN <<>> ELSE <<arns>>

\* main.go, lines 214 and 230: pager.New(services, 10), pager.New(taskARNs, 10).
DescribeBatches(arns) == New(arns, DescribeBatch)

\* getInUseImages of main.go as it is entered.
Started ==
    [pc |-> "getClusters", clusters |-> <<>>, cluster |-> 0,
     services |-> <<>>, servicesBatches |-> <<>>, serviceNames |-> <<>>, service |-> 0,
     taskARNs |-> <<>>, taskARNsBatches |-> <<>>,
     images |-> <<>>, err |-> Nil, calls |-> <<>>]

\* The run of main.go's build: the registry collector has nothing to list,
\* and the orchestrator collector is the cluster-centric one.
InitClusterCentric ==
    /\ ecsClusters \in ClusterWorlds
    /\ frame = Started
    /\ registry = <<>> /\ taskDefs = <<>> /\ functions = <<>>
    /\ dryRun = TRUE
    /\ prev = Nil
    /\ pc = "main.go"
    /\ wg = 0
    /\ running = {}
    /\ allImages = Nil /\ allImagesErr = Nil
    /\ inUseImagesECS = Nil /\ inUseImagesECSErr = Nil
    /\ inUseImagesLambda = Nil /\ inUseImagesLambdaErr = Nil
    /\ calls = [c \in Collectors |-> <<>>]
    /\ fetched = <<>>
    /\ err = Nil
    /\ inUseImagesByContainerMap = {}
    /\ repoNames = {}
    /\ unusedImagesByRepoName = <<>>
    /\ unusedImageCount = 0
    /\ pending = {}
    /\ repoName = ""
    /\ tagPages = <<>>
    /\ deleteCalls = <<>>
    /\ stdout = <<>>

\* All of run's variables but err, the usage map and the output.
RunRest == <<world, dryRun, pc, slots, collect, repoNames, unusedImagesByRepoName,
             unusedImageCount, sweep, history, ecsClusters>>

\* main.go, lines 199-202: the clusters are listed.
GetClusters ==
    /\ frame.pc = "getClusters"
    /\ \E failAt \in 0..PagesOf(ecsClusters, SmallPage) :
         LET r == getClusters(ecsClusters, failAt)
         IN  frame' = [frame EXCEPT !.clusters = r.result, !.err = r.err,
                                    !.calls = @ \o r.calls, !.cluster = 1,
                                    !.pc = IF r.err # Nil THEN "returned" ELSE "cluster"]
    /\ UNCHANGED <<RunRest, err, inUseImagesByContainerMap, stdout>>

\* main.go, lines 204-211: the range over the clusters reaches a cluster and
\* lists its services, or is over.
RangeClusters ==
    /\ frame.pc = "cluster"
    /\ IF frame.cluster > Len(frame.clusters)
       THEN frame' = [frame EXCEPT !.pc = "returned"]
       ELSE \E failAt \in 0..PagesOf(ClusterOf(ecsClusters,
                                               frame.clusters[frame.cluster]).Services,
                                     ClusterPage) :
              LET r == getClusterServices(ecsClusters, frame.clusters[frame.cluster], failAt)
              IN  frame' = [frame EXCEPT
                      !.services = r.result, !.err = r.err, !.calls = @ \o r.calls,
                      !.servicesBatches = DescribeBatches(r.result),
                      !.serviceNames = <<>>,
                      !.pc = IF r.err # Nil THEN "returned" ELSE "describeServices"]
    /\ UNCHANGED <<RunRest, err, inUseImagesByContainerMap, stdout>>

\* main.go, lines 213-221: the range over the batches of services describes
\* a batch, or is over.
RangeServicesBatches ==
    /\ frame.pc = "describeServices"
    /\ IF frame.servicesBatches = <<>>
       THEN frame' = [frame EXCEPT !.service = 1, !.pc = "service"]
       ELSE \E ok \in BOOLEAN :
              LET cluster == frame.clusters[frame.cluster]
                  batch == Head(frame.servicesBatches)
                  r == getClusterServiceNames(ecsClusters, cluster, batch, ok)
              IN  frame' = [frame EXCEPT
                      !.err = r.err,
                      !.calls = Append(@, EcsCall("DescribeServices", cluster, "", Nil,
                                                  batch, ~ok)),
                      !.serviceNames = @ \o r.result,
                      !.servicesBatches = Tail(@),
                      !.pc = IF r.err # Nil THEN "returned" ELSE "describeServices"]
    /\ UNCHANGED <<RunRest, err, inUseImagesByContainerMap, stdout>>

\* main.go, lines 223-228: the range over the service names reaches a
\* service and lists its tasks, or is over and the next cluster follows.
RangeServiceNames ==
    /\ frame.pc = "service"
    /\ IF frame.service > Len(frame.serviceNames)
       THEN frame' = [frame EXCEPT !.cluster = @ + 1, !.pc = "cluster"]
       ELSE LET cluster == frame.clusters[frame.cluster]
                service == frame.serviceNames[frame.service]
            IN  \E failAt \in 0..PagesOf(ServiceOf(ecsClusters, cluster, service).Tasks,
                                         ClusterPage) :
                  LET r == getClusterServiceTaskARNs(ecsClusters, cluster, service, failAt)
                  IN  frame' = [frame EXCEPT
                          !.taskARNs = r.result, !.err = r.err, !.calls = @ \o r.calls,
                          !.taskARNsBatches = DescribeBatches(r.result),
                          !.pc = IF r.err # Nil THEN "returned" ELSE "describeTasks"]
    /\ UNCHANGED <<RunRest, err, inUseImagesByContainerMap, stdout>>

\* main.go, lines 230-237: the range over the batches of tasks describes a
\* batch, or is over and the next service follows.
RangeTaskARNsBatches ==
    /\ frame.pc = "describeTasks"
    /\ IF frame.taskARNsBatches = <<>>
       THEN frame' = [frame EXCEPT !.service = @ + 1, !.pc = "service"]
       ELSE \E ok \in BOOLEAN :
              LET cluster == frame.clusters[frame.cluster]
                  batch == Head(frame.taskARNsBatches)
                  r == getClusterTaskContainerARNs(ecsClusters, cluster, batch, ok)
              IN  frame' = [frame EXCEPT
                      !.err = r.err,
                      !.calls = Append(@, EcsCall("DescribeTasks", cluster,
                                                  frame.serviceNames[frame.service],
                                                  Nil, batch, ~ok)),
                      !.images = @ \o r.result,
                      !.taskARNsBatches = Tail(@),
                      !.pc = IF r.err # Nil THEN "returned" ELSE "describeTasks"]
    /\ UNCHANGED <<RunRest, err, inUseImagesByContainerMap, stdout>>

\* main.go, lines 51-62: the join, the check of the collectors' errors and
\* the usage map.
JoinClusterCentric ==
    /\ frame.pc = "returned"
    /\ err' = Combine(allImagesErr, frame.err, Nil)
    /\ IF err' # Nil
       THEN UNCHANGED <<inUseImagesByContainerMap, stdout>>
       ELSE /\ inUseImagesByContainerMap' =
                   { frame.images[i] : i \in 1..Len(frame.images) }
            /\ stdout' = <<Line1("Images in use:")>>
                         \o [i \in 1..Len(frame.images) |-> Line2("  %v", frame.images[i])]
    /\ frame' = [frame EXCEPT !.pc = "joined"]
    /\ UNCHANGED RunRest

NextClusterCentric ==
    \/ GetClusters
    \/ RangeClusters
    \/ RangeServicesBatches
    \/ RangeServiceNames
    \/ RangeTaskARNsBatches
    \/ JoinClusterCentric

\* The two builds of the tool: the one with the task-definition collector
\* and the function collector, and the one with the cluster-centric
\* collector.
InitBuilds == Init \/ InitClusterCentric

NextBuilds == Next \/ NextClusterCentric

SpecBuilds == InitBuilds /\ [][NextBuilds]_vars

\* The steps of run itself, from its entry to its return.
Drive ==
    \/ LoadConfigFails
    \/ Launch
    \/ Join
    \/ BuildUsage
    \/ Classify
    \/ SkipSweep
    \/ StartSweep
    \/ RangeRepo
    \/ DeleteBatch
    \/ EndSweep
    \/ Return

\* The step in which the goroutine of collector c ends.
Finishes(c) == c \in running /\ running' = running \ {c}

\* Every collaborator call returns and every goroutine is scheduled: run
\* takes a step that stays possible, and a collector goroutine that was
\* started ends.
FairSpec ==
    /\ Init /\ [][Next]_vars
    /\ WF_vars(Drive)
    /\ \A c \in Collectors : WF_running(Finishes(c))

\* ------------------------------------------------------------- the claims

\* The run has reconciled: the unused images are computed and reported.
Reconciled ==
    \/ pc \in {"act", "sweep", "return"}
    \/ pc = "done" /\ stdout # <<>>

\* The run has been through the whole deletion sweep.
Swept == ~dryRun /\ pc \in {"return", "done"} /\ stdout # <<>>

\* The usage set as the two usage collectors delivered it.
Usage == UsageSet(inUseImagesECS, inUseImagesLambda)

\* The images that are in an unused group.
Grouped ==
    UNION { Range(unusedImagesByRepoName[n]) : n \in DOMAIN unusedImagesByRepoName }

\* The delete calls made for one repository, in order.
CallsFor(name) == SelectSeq(deleteCalls, LAMBDA c : c.repoName = name)

\* C1: in a dry run no delete call is issued, and the unused image URIs a
\* dry run reports are, in order, those a non-dry run reports for the same
\* inventory and the same usage set.
C1_DryRunReadOnly ==
    /\ dryRun => deleteCalls = <<>>
    /\ ( /\ prev # Nil
         /\ Reconciled
         /\ prev.dryRun # dryRun
         /\ prev.allImages = allImages
         /\ prev.inUse = inUseImagesByContainerMap )
       => Reported(stdout) = prev.unused

\* A dry run reported unused images and deleted nothing; the non-dry run
\* after it, on the same inventory and usage, has deleted.
C1_Witness ==
    /\ prev # Nil /\ prev.dryRun /\ prev.deleted = 0 /\ prev.unused # <<>>
    /\ ~dryRun /\ pc = "done" /\ deleteCalls # <<>>
    /\ prev.allImages = allImages
    /\ prev.inUse = inUseImagesByContainerMap

\* C2: an image of the inventory is classified unused exactly when its URI
\* is not, as the same string, one of the references the orchestrator and
\* function collectors delivered; the unused images are reported in
\* inventory order.
C2_UnusedIffAbsent ==
    Reconciled =>
        LET usage  == Usage
            absent == SelectSeq(allImages, LAMBDA img : img.URI \notin usage)
        IN  /\ Grouped = Range(absent)
            /\ Reported(stdout) = [i \in 1..Len(absent) |-> absent[i].URI]
            /\ unusedImageCount = Len(absent)

\* svc:a is referenced twice and is in use; svc:b is referenced only in
\* another case and svc:c only by digest, and both are unused.
C2_Witness ==
    /\ Reconciled
    /\ Len(SelectSeq(inUseImagesECS, LAMBDA u : u.Image = "svc:a")) = 2
    /\ "svc:B" \in Usage /\ "svc@sha256:c" \in Usage
    /\ "svc:a" \notin Range(Reported(stdout))
    /\ "svc:b" \in Range(Reported(stdout))
    /\ "svc:c" \in Range(Reported(stdout))

SomeCollectorFailed ==
    allImagesErr # Nil \/ inUseImagesECSErr # Nil \/ inUseImagesLambdaErr # Nil

\* C3: when a collector has failed, run gets no further than the join: it
\* ends there with a non-nil error, nothing is reconciled or reported and no
\* delete call is made.
C3_CollectorFailureStops ==
    SomeCollectorFailed =>
        /\ pc \in {"wait", "done"}
        /\ pc = "done" => err # Nil
        /\ stdout = <<>>
        /\ deleteCalls = <<>>
        /\ inUseImagesByContainerMap = {}
        /\ repoNames = {} /\ unusedImagesByRepoName = <<>> /\ unusedImageCount = 0

\* A non-dry run ended at the join because the function collector failed,
\* though the registry and orchestrator collectors succeeded with results.
C3_Witness ==
    /\ pc = "done" /\ ~dryRun
    /\ allImagesErr = Nil /\ allImages # <<>>
    /\ inUseImagesECSErr = Nil /\ inUseImagesECS # <<>>
    /\ inUseImagesLambdaErr # Nil

\* C4: once the sweep is over, every unused tag of every repository has
\* been passed to a delete call, whichever delete calls failed.
C4_NoShortCircuit ==
    Swept =>
        \A n \in DOMAIN unusedImagesByRepoName :
            \A k \in 1..Len(unusedImagesByRepoName[n]) :
                \E c \in 1..Len(deleteCalls) :
                    /\ deleteCalls[c].repoName = n
                    /\ unusedImagesByRepoName[n][k].Tag \in Range(deleteCalls[c].tags)

\* Batch 2 of the 3 batches of big failed; batches 1 and 3 were issued and
\* so was the batch of svc after them.
C4_Witness ==
    /\ pc = "done"
    /\ Len(deleteCalls) = 4
    /\ \A c \in 1..3 : deleteCalls[c].repoName = "big"
    /\ deleteCalls[1].err = Nil /\ deleteCalls[2].err # Nil /\ deleteCalls[3].err = Nil
    /\ deleteCalls[4].repoName = "svc"

\* The delete calls that failed.
FailedCalls == SelectSeq(deleteCalls, LAMBDA c : c.err # Nil)

\* C5: when a delete call has failed during the sweep, run returns a non-nil
\* error: the error of a failed delete call, wrapped as "failed to delete
\* image tags".
C5_FailedBatchIsReturned ==
    (pc = "done" /\ FailedCalls # <<>>) =>
        /\ err # Nil
        /\ \E i \in 1..Len(FailedCalls) :
               err = Wrap("failed to delete image tags", FailedCalls[i].err)

\* The tag counts of the delete calls made for one repository, in order.
BatchSizes(name) == [i \in 1..Len(CallsFor(name)) |-> Len(CallsFor(name)[i].tags)]

\* C6: after the sweep, a repository with N unused tags has had
\* ceil(N / 100) delete calls, each with at least 1 and at most 100 tags,
\* and the tag lists of its calls, put end to end in the order of the
\* calls, are its unused tags in order; 250 tags go in batches of 100, 100
\* and 50.
C6_BatchPartition ==
    Swept =>
        \A n \in DOMAIN unusedImagesByRepoName :
            LET N  == Len(unusedImagesByRepoName[n])
                cs == CallsFor(n)
            IN  /\ Len(cs) = (N + 99) \div 100
                /\ \A i \in 1..Len(cs) : Len(cs[i].tags) >= 1 /\ Len(cs[i].tags) <= 100
                /\ Concat([i \in 1..Len(cs) |-> cs[i].tags])
                       = [k \in 1..N |-> unusedImagesByRepoName[n][k].Tag]
                /\ N = 250 => BatchSizes(n) = <<100, 100, 50>>

\* The sweep has deleted the 250 unused tags of big in three calls of 100,
\* 100 and 50 tags.
C6_Witness ==
    /\ Swept
    /\ "big" \in DOMAIN unusedImagesByRepoName
    /\ Len(unusedImagesByRepoName["big"]) = 250
    /\ BatchSizes("big") = <<100, 100, 50>>

\* The (repository name, tag) pairs passed to delete calls.
Targeted ==
    UNION { { <<deleteCalls[c].repoName, t>> : t \in Range(deleteCalls[c].tags) } :
            c \in 1..Len(deleteCalls) }

\* C7: every (repository, tag) passed to a delete call is an inventory image
\* whose URI is not in the usage set; after the sweep every such image has
\* been passed to one.  For svc with tags a, b, c, svc:a used by the
\* orchestrator and svc:c by a function, the sweep makes one delete call,
\* for svc with the tags [b].
C7_DeletesExactlyUnused ==
    LET usage  == Usage
        absent == { <<img.Repo.Name, img.Tag>> :
                        img \in { x \in Range(allImages) : x.URI \notin usage } }
    IN  /\ Targeted \subseteq absent
        /\ Swept => Targeted = absent
        /\ ( /\ Swept
             /\ [i \in 1..Len(allImages) |-> allImages[i].URI] = <<"svc:a", "svc:b", "svc:c">>
             /\ { inUseImagesECS[i].Image : i \in 1..Len(inUseImagesECS) } = {"svc:a"}
             /\ { inUseImagesLambda[i].Container : i \in 1..Len(inUseImagesLambda) } = {"svc:c"} )
           => /\ Len(deleteCalls) = 1
              /\ deleteCalls[1].repoName = "svc"
              /\ deleteCalls[1].tags = <<"b">>

\* The sweep of the example: svc:a and svc:c are in use, svc:b went in the
\* one delete call.
C7_Witness ==
    /\ Swept /\ pc = "done"
    /\ [i \in 1..Len(allImages) |-> allImages[i].URI] = <<"svc:a", "svc:b", "svc:c">>
    /\ Usage = {"svc:a", "svc:c"}
    /\ Len(deleteCalls) = 1 /\ deleteCalls[1].tags = <<"b">>

\* C8: while a collector is still running, run is at the join and has read
\* no usage, computed no unused image, printed nothing and deleted nothing;
\* past the join every collector is finished and none has an error.
C8_JoinBeforeReconcile ==
    /\ running # {} =>
           /\ pc = "wait"
           /\ wg = Cardinality(running)
           /\ stdout = <<>> /\ deleteCalls = <<>>
           /\ inUseImagesByContainerMap = {}
           /\ repoNames = {} /\ unusedImageCount = 0
    /\ pc \in {"usage", "classify", "act", "sweep", "return"} =>
           /\ running = {} /\ wg = 0
           /\ ~SomeCollectorFailed

\* The registry and orchestrator collectors have delivered, the function
\* collector is still running and run waits.
C8_Witness ==
    /\ pc = "wait" /\ running = {"lambda"} /\ wg = 1
    /\ allImages # <<>> /\ inUseImagesECS # <<>>
    /\ stdout = <<>>

\* C9: a delete call has at least one tag and is for a repository that has
\* an unused image; with no repository in the inventory the unused count is
\* 0 and there is no delete call, dry run or not.
C9_NoEmptyDelete ==
    LET usage == Usage
    IN  /\ \A c \in 1..Len(deleteCalls) :
               /\ deleteCalls[c].tags # <<>>
               /\ \E i \in 1..Len(allImages) :
                      /\ allImages[i].Repo.Name = deleteCalls[c].repoName
                      /\ allImages[i].URI \notin usage
        /\ (Reconciled /\ allImages = <<>>) =>
               unusedImageCount = 0 /\ deleteCalls = <<>>

\* The sweep is over: web has an image, which is in use, and got no delete
\* call, while svc got one.
C9_Witness ==
    /\ Swept /\ pc = "done"
    /\ \E i \in 1..Len(allImages) : allImages[i].Repo.Name = "web"
    /\ "web" \notin repoNames
    /\ CallsFor("web") = <<>>
    /\ CallsFor("svc") # <<>>

\* With no repository in the registry, a non-dry run has ended with nothing
\* reported unused and no delete call.
C9_WitnessEmpty ==
    /\ pc = "done" /\ ~dryRun /\ stdout # <<>>
    /\ allImages = <<>> /\ unusedImageCount = 0 /\ deleteCalls = <<>>


\* The records a fetcher of the registry collector lists when no call fails.
Listing(f) ==
    IF f.fetcher = "getRepositories"
    THEN [i \in 1..Len(registry) |-> [URI |-> registry[i].URI, Name |-> registry[i].Name]]
    ELSE PageTags(ImageIdsOf(registry, f.arg))

\* The collaborator calls the i-th fetcher made: from its first call to the
\* call before the next fetcher's first.
CallsOf(i) ==
    LET to == IF i < Len(fetched) THEN fetched[i + 1].from ELSE Len(calls["registry"])
    IN  SubSeq(calls["registry"], fetched[i].from + 1, to)

\* The cursors a fetcher hands over: none for the first page, then the one
\* the page before returned.
Cursors(cs) == [k \in 1..Len(cs) |-> cs[k].token]

\* A fetcher that returned no error fetched every page, the first without a
\* cursor and each next one with the cursor of the page before, and returned
\* all the records of the listing in page order (the listing as it is until
\* the sweep deletes from it).
FetchedAll ==
    \A i \in 1..Len(fetched) :
        fetched[i].err = Nil /\ deleteCalls = <<>> =>
            LET limit == IF fetched[i].fetcher = "getRepositories"
                         THEN SmallPage ELSE LargePage
                listed == IF fetched[i].fetcher = "getRepositories"
                          THEN Len(registry)
                          ELSE Len(ImageIdsOf(registry, fetched[i].arg))
                cs == CallsOf(i)
            IN  /\ fetched[i].result = Listing(fetched[i])
                /\ Len(cs) >= 1
                /\ Cursors(cs) = [k \in 1..Len(cs) |->
                                     IF k = 1 THEN Nil ELSE Ptr((k - 1) * limit)]
                /\ Len(cs) * limit >= listed
                /\ (Len(cs) - 1) * limit < listed \/ Len(cs) = 1

\* A fetcher that returned an error made no call after the failed one: the
\* failed page is the collector's last call, fetched once.
StopsAtFirstError ==
    \A i \in 1..Len(fetched) :
        fetched[i].err # Nil =>
            /\ i = Len(fetched)
            /\ allImagesErr # Nil
            /\ \A k, l \in 1..Len(CallsOf(i)) :
                   CallsOf(i)[k].token = CallsOf(i)[l].token => k = l

\* A fetcher that returned an error returned no record with it.
NoPartialResult ==
    \A i \in 1..Len(fetched) : fetched[i].err # Nil => fetched[i].result = <<>>

\* C10: each paginated fetcher fetches pages until the cursor is exhausted
\* and returns the concatenation of all pages' records in page order; on the
\* first page-fetch error it stops at once, with no further page and no
\* retry, and returns the error with no partial result.
C10_FetchAllOrFailEmpty ==
    /\ FetchedAll
    /\ StopsAtFirstError
    /\ NoPartialResult

\* A fetcher failed on a page after its first: the records of the pages
\* before it are in what it returned.
C10_PartialReturned ==
    \E i \in 1..Len(fetched) :
        /\ fetched[i].err # Nil
        /\ Len(CallsOf(i)) >= 2
        /\ fetched[i].result # <<>>

\* The collaborator calls each collector makes when none of its calls fails.
FullCalls ==
    [c \in Collectors |->
        IF c = "registry" THEN getAllImages(registry, 0).calls
        ELSE IF c = "ecs" THEN getInUseImages(taskDefs, 0).calls
        ELSE getInUseImagesLambda(functions, 0).calls]

\* The error slot of a collector.
SlotErr(c) ==
    IF c = "registry" THEN allImagesErr
    ELSE IF c = "ecs" THEN inUseImagesECSErr
    ELSE inUseImagesLambdaErr

\* C11: when collectors have failed, the error run returns holds the error
\* of every failed collector, and all three collectors have run to their
\* end before it is formed: a collector that did not fail itself has made
\* all of its calls, whatever the others did.
C11_AllErrorsAllCollectors ==
    (pc = "done" /\ SomeCollectorFailed) =>
        /\ \A c \in Collectors :
               SlotErr(c) # Nil => \E i \in 1..Len(err) : <<err[i]>> = SlotErr(c)
        /\ Len(err) = Cardinality({ c \in Collectors : SlotErr(c) # Nil })
        /\ running = {} /\ wg = 0
        /\ \A c \in Collectors :
               /\ calls[c] # <<>>
               /\ SlotErr(c) = Nil => calls[c] = FullCalls[c]

\* The orchestrator and function collectors both failed, the registry
\* collector listed every tag of its repositories, and run has returned.
C11_Witness ==
    /\ pc = "done"
    /\ inUseImagesECSErr # Nil /\ inUseImagesLambdaErr # Nil
    /\ allImagesErr = Nil /\ allImages # <<>>
    /\ Len(calls["registry"]) >= 3
    /\ Len(err) = 2

\* The images the registry holds: for each repository in listing order, an
\* image for each of its identifiers that has a tag, in listing order.
Inventory ==
    Concat([r \in 1..Len(registry) |->
        LET ids == SelectSeq(registry[r].ImageIds, LAMBDA id : id # Nil)
        IN  [j \in 1..Len(ids) |->
                [Repo |-> [URI |-> registry[r].URI, Name |-> registry[r].Name],
                 URI |-> registry[r].URI \o ":" \o ids[j][1],
                 Tag |-> ids[j][1]]]])

\* The registry collector has returned and nothing is deleted yet.
RegistryCollected == pc = "wait" /\ "registry" \notin running

\* C12: the registry collector outputs one image per repository and tagged
\* identifier, with URI = repository URI ":" tag, in repository listing
\* order and then tag listing order; an identifier without a tag gives no
\* image; a listing error for a repository ends the collector with an
\* error, and no repository after it is listed.
C12_InventoryInListingOrder ==
    RegistryCollected =>
        /\ allImagesErr = Nil => allImages = Inventory
        /\ \A i \in 1..Len(allImages) :
               allImages[i].URI = allImages[i].Repo.URI \o ":" \o allImages[i].Tag
        /\ Len(allImages) <= Len(Inventory)
        /\ Len(calls["registry"]) < Len(FullCalls["registry"]) => allImagesErr # Nil
        /\ allImagesErr # Nil =>
               calls["registry"] =
                   SubSeq(FullCalls["registry"], 1, Len(calls["registry"]))

\* svc, with an identifier that has no tag, and web, whose URI is not its
\* name, are collected: three images of svc, then the image of web.
C12_Witness ==
    /\ RegistryCollected /\ allImagesErr = Nil
    /\ Len(registry) = 2
    /\ Nil \in Range(registry[1].ImageIds)
    /\ [i \in 1..Len(allImages) |-> allImages[i].URI]
           = <<"svc:a", "svc:b", "svc:c", "reg/web:a">>

\* The listing of the second repository failed: the collector has an error
\* and made no call after the failed one.
C12_WitnessAbort ==
    /\ RegistryCollected /\ allImagesErr # Nil
    /\ Len(registry) = 2
    /\ calls["registry"][Len(calls["registry"])].arg = registry[2].Name

\* The sum of the lengths of the lists of a map of lists.
RECURSIVE SumLens(_, _)
SumLens(groups, keys) ==
    IF keys = {} THEN 0
    ELSE LET k == CHOOSE k \in keys : TRUE
         IN  Len(groups[k]) + SumLens(groups, keys \ {k})

\* The repository names of the inventory.
InventoryNames == { allImages[i].Repo.Name : i \in 1..Len(allImages) }

\* C13: after reconciliation the list of each repository name holds exactly
\* the unused images of that repository, in inventory order; the unused
\* count is the sum of the lengths of the lists; the affected repository
\* names are exactly those with a non-empty list; and a second run with the
\* same inventory and usage set has the same lists in the same order.
C13_GroupsByRepository ==
    Reconciled =>
        LET usage == Usage
        IN  /\ \A n \in InventoryNames :
                   MapGet(unusedImagesByRepoName, n) =
                       SelectSeq(allImages,
                                 LAMBDA img : img.Repo.Name = n /\ img.URI \notin usage)
            /\ DOMAIN unusedImagesByRepoName \subseteq InventoryNames
            /\ unusedImageCount =
                   SumLens(unusedImagesByRepoName, DOMAIN unusedImagesByRepoName)
            /\ repoNames = { n \in InventoryNames :
                                 MapGet(unusedImagesByRepoName, n) # <<>> }
            /\ ( /\ prev # Nil
                 /\ prev.allImages = allImages
                 /\ prev.inUse = inUseImagesByContainerMap )
               => unusedImagesByRepoName = prev.groups

\* A second run has reconciled the inventory and usage of the run before:
\* svc has the unused images svc:b and svc:c, in that order, web has none
\* and is not affected.
C13_Witness ==
    /\ Reconciled /\ prev # Nil
    /\ prev.allImages = allImages /\ prev.inUse = inUseImagesByContainerMap
    /\ repoNames = {"svc"}
    /\ "web" \in InventoryNames
    /\ [k \in 1..2 |-> unusedImagesByRepoName["svc"][k].URI] = <<"svc:b", "svc:c">>
    /\ unusedImageCount = 2

\* The function collector has returned.
LambdaCollected == calls["lambda"] # <<>> /\ "lambda" \notin running

\* The functions of package type "Image", in listing order.
ImageFunctions == SelectSeq(functions, LAMBDA f : f.PackageType = "Image")

\* The function names of the collector's GetFunction calls, in order.
Got ==
    LET gs == SelectSeq(calls["lambda"], LAMBDA c : c.op = "GetFunction")
    IN  [i \in 1..Len(gs) |-> gs[i].arg]

C14_WitnessFailed ==
    /\ LambdaCollected /\ inUseImagesLambdaErr # Nil
    /\ Len(functions) = 2
    /\ Len(calls["lambda"]) = 2
    /\ calls["lambda"][2] = ApiCall("GetFunction", "resize", Nil)

\* The result slot and the error slot of a collector.
SlotsOf(c) ==
    IF c = "registry" THEN <<allImages, allImagesErr>>
    ELSE IF c = "ecs" THEN <<inUseImagesECS, inUseImagesECSErr>>
    ELSE <<inUseImagesLambda, inUseImagesLambdaErr>>

\* What run itself reads and writes after the join.
DriverState == <<pc, err, recon, sweep, stdout>>

\* C15: in every step of the Collect phase the slots of a collector are
\* written by that collector only, as it runs, and by no step of another
\* collector; and while a collector is running run takes no step, so it
\* reads the slots only after the join.
C15_SlotsOwned ==
    [][ /\ \A c \in Collectors :
               SlotsOf(c)' # SlotsOf(c) =>
                   \/ c \in running /\ running' = running \ {c}
                   \/ running = {} /\ pc = "done" /\ pc' = "main"
        /\ running # {} => DriverState' = DriverState
      ]_vars

\* The orchestrator and function collectors have written their slots, the
\* one with an error and the other with a result; the registry collector
\* still runs, its slots untouched, and run waits.
C15_Witness ==
    /\ pc = "wait" /\ running = {"registry"}
    /\ SlotsOf("registry") = <<Nil, Nil>> /\ calls["registry"] = <<>>
    /\ inUseImagesECSErr # Nil
    /\ inUseImagesLambdaErr = Nil /\ inUseImagesLambda # <<>>

\* This run follows a non-dry run that ended with no error and no failed
\* delete call, and has the usage set that run had.
AfterCleanSweep ==
    /\ prev # Nil /\ ~prev.dryRun
    /\ Reconciled
    /\ prev.inUse = inUseImagesByContainerMap

\* C16: a non-dry run after a non-dry run in which every delete call
\* succeeded, with the same usage set, finds no unused image and makes no
\* delete call.
C16_SecondSweepIsEmpty ==
    (AfterCleanSweep /\ ~dryRun) =>
        /\ unusedImageCount = 0
        /\ Reported(stdout) = <<>>
        /\ repoNames = {}
        /\ deleteCalls = <<>>

\* The first run deleted the 250 tags of big in three calls and the unused
\* tags of svc; the second run lists what is left, all of it in use, and
\* ends with no delete call.
C16_Witness ==
    /\ AfterCleanSweep /\ ~dryRun /\ pc = "done"
    /\ prev.deleted = 4 /\ Len(prev.unused) > 250
    /\ allImages # <<>>
    /\ unusedImageCount = 0 /\ deleteCalls = <<>>

\* The task-definition collector has returned.
EcsCollected == calls["ecs"] # <<>> /\ "ecs" \notin running

\* The container images of the task definitions, in listing order.
Referenced ==
    Concat([t \in 1..Len(taskDefs) |->
               [k \in 1..Len(taskDefs[t].Containers) |->
                   [ImageName |-> taskDefs[t].Containers[k].Name,
                    Image |-> taskDefs[t].Containers[k].Image]]])

\* The ARNs of the describe calls of one kind made for a cluster, end to end.
Described(op, cluster) ==
    LET cs == SelectSeq(frame.calls, LAMBDA c : c.op = op /\ c.cluster = cluster)
    IN  Concat([k \in 1..Len(cs) |-> cs[k].arns])

\* The service ARNs and the task ARNs of a cluster, in listing order.
ListedServices(cluster) ==
    LET ss == ClusterOf(ecsClusters, cluster).Services
    IN  [i \in 1..Len(ss) |-> ss[i].Arn]

ListedTasks(cluster) ==
    LET ss == ClusterOf(ecsClusters, cluster).Services
    IN  Concat([i \in 1..Len(ss) |-> [j \in 1..Len(ss[i].Tasks) |-> ss[i].Tasks[j].Arn]])

IsPrefix(s, t) == Len(s) <= Len(t) /\ s = SubSeq(t, 1, Len(s))

\* The task-definition collector: without an error it made every call and
\* delivers every reference; with an error, run ends at the join and no
\* reference reaches the usage set.
TaskDefinitionErrorsFatal ==
    EcsCollected =>
        /\ inUseImagesECSErr = Nil =>
               calls["ecs"] = FullCalls["ecs"] /\ inUseImagesECS = Referenced
        /\ IsPrefix(calls["ecs"], FullCalls["ecs"])
        /\ inUseImagesECSErr # Nil =>
               /\ pc \in {"wait", "done"}
               /\ pc = "done" => err # Nil
               /\ inUseImagesByContainerMap = {} /\ stdout = <<>>

\* The cluster-centric collector: a failed call is its last call and it
\* returns with an error; with an error, run ends at the join and no
\* reference reaches the usage set.
ClusterCentricErrorsFatal ==
    frame.pc # "none" =>
        /\ \A k \in 1..Len(frame.calls) :
               frame.calls[k].failed =>
                   /\ k = Len(frame.calls)
                   /\ frame.pc \in {"returned", "joined"}
                   /\ frame.err # Nil
        /\ frame.err # Nil => frame.calls[Len(frame.calls)].failed
        /\ (frame.pc = "joined" /\ frame.err # Nil) =>
               err # Nil /\ inUseImagesByContainerMap = {} /\ stdout = <<>>

\* The cluster-centric collector: a describe call has 1 to 10 ARNs; the
\* ARNs of the describe calls for a cluster, end to end, are the first of
\* its listed service ARNs, resp. task ARNs, in listing order, and all of
\* them once the collector has returned without error.
DescribedInBatches ==
    frame.pc # "none" =>
        /\ \A k \in 1..Len(frame.calls) :
               frame.calls[k].op \in {"DescribeServices", "DescribeTasks"} =>
                   Len(frame.calls[k].arns) >= 1 /\ Len(frame.calls[k].arns) <= 10
        /\ \A i \in 1..Len(ecsClusters) :
               LET c == ecsClusters[i].Arn
                   complete == /\ frame.err = Nil
                               /\ \/ frame.pc \in {"returned", "joined"}
                                  \/ frame.pc = "cluster" /\ frame.cluster > i
               IN  /\ IsPrefix(Described("DescribeServices", c), ListedServices(c))
                   /\ IsPrefix(Described("DescribeTasks", c), ListedTasks(c))
                   /\ complete =>
                          /\ Described("DescribeServices", c) = ListedServices(c)
                          /\ Described("DescribeTasks", c) = ListedTasks(c)

\* C17: the orchestrator collector treats every API error as fatal: when a
\* list page fetch or a describe call fails it returns an error and its
\* references are not put in the usage set; the cluster-centric collector
\* describes services and tasks in batches of at most 10 ARNs, every listed
\* ARN in exactly one batch, in listing order.
C17_OrchestratorErrorsFatal ==
    /\ TaskDefinitionErrorsFatal
    /\ ClusterCentricErrorsFatal
    /\ DescribedInBatches

\* The sizes of the describe calls of one kind made for a cluster and service.
DescribeSizes(op, cluster, service) ==
    LET cs == SelectSeq(frame.calls,
                        LAMBDA c : c.op = op /\ c.cluster = cluster /\ c.service = service)
    IN  [k \in 1..Len(cs) |-> Len(cs[k].arns)]

\* The cluster-centric collector has returned without error: the 12
\* services of c1 were described in batches of 10 and 2, the 25 tasks of its
\* first service in batches of 10, 10 and 5.
C17_Witness ==
    /\ frame.pc = "joined" /\ frame.err = Nil
    /\ Len(ecsClusters) = 2
    /\ DescribeSizes("DescribeServices", "c1", "") = <<10, 2>>
    /\ DescribeSizes("DescribeTasks", "c1", "n1") = <<10, 10, 5>>
    /\ "svc:c" \in inUseImagesByContainerMap

\* A describe call of the cluster-centric collector failed after references
\* were collected: run ended with an error and an empty usage set.
C17_WitnessFailed ==
    /\ frame.pc = "joined" /\ frame.err # Nil
    /\ frame.images # <<>>
    /\ frame.calls[Len(frame.calls)].op = "DescribeTasks"
    /\ err # Nil /\ inUseImagesByContainerMap = {}

\* A describe call of the task-definition collector failed: run ended with
\* an error and an empty usage set.
C17_WitnessTaskDefinitions ==
    /\ pc = "done" /\ inUseImagesECSErr # Nil
    /\ calls["ecs"][Len(calls["ecs"])].op = "DescribeTaskDefinition"
    /\ allImagesErr = Nil /\ inUseImagesLambdaErr = Nil
    /\ err # Nil /\ inUseImagesByContainerMap = {}

\* C18: every run terminates.  The join is always released: the counter of
\* the WaitGroup is the number of collectors still running, each collector
\* decrements it once whether it failed or not, and a run that waits gets
\* past the join; the deletion sweep, once entered, ends; and a run that is
\* entered returns.
C18_Terminates ==
    /\ [](wg = Cardinality(running) /\ (pc = "main" => wg = 0))
    /\ (pc = "wait") ~> (pc \in {"usage", "done"} /\ running = {})
    /\ (pc = "sweep") ~> (pc = "return")
    /\ (pc = "main") ~> (pc = "done")

\* A run has returned after a join with two failed collectors; the counter
\* is back at zero.
C18_Witness ==
    /\ pc = "done" /\ wg = 0 /\ running = {}
    /\ allImagesErr # Nil /\ inUseImagesLambdaErr # Nil /\ inUseImagesECSErr = Nil
    /\ calls["ecs"] # <<>>

\* A run has returned after a sweep of four delete calls, two of which
\* failed.
C18_WitnessSweep ==
    /\ pc = "done" /\ Len(deleteCalls) = 4
    /\ Len(SelectSeq(deleteCalls, LAMBDA c : c.err # Nil)) = 2

\* The summary lines of the sweep that have been printed.
Summaries == SelectSeq(stdout, LAMBDA l : l[1] = "Deleted %d unused images.")

\* C19: after a sweep the one "Deleted N unused images." line reports the
\* number of unused images reconciliation identified, whichever delete
\* calls failed; that number is the number of tags whose delete call
\* succeeded exactly when no delete call failed.
C19_ReportsIdentifiedCount ==
    /\ Swept =>
           LET usage  == Usage
               absent == SelectSeq(allImages, LAMBDA img : img.URI \notin usage)
           IN  /\ Summaries = <<Line2("Deleted %d unused images.", ToString(Len(absent)))>>
               /\ unusedImageCount = Len(absent)
               /\ Succeeded(deleteCalls) <= Len(absent)
               /\ Succeeded(deleteCalls) = Len(absent) <=> FailedCalls = <<>>
    /\ ~Swept => Summaries = <<>>

\* The second of the three delete calls for big failed: 150 tags are
\* deleted and the summary reports 250.
C19_Witness ==
    /\ Swept /\ pc = "done"
    /\ Len(deleteCalls) = 3 /\ deleteCalls[2].err # Nil
    /\ Succeeded(deleteCalls) = 150
    /\ Summaries = <<Line2("Deleted %d unused images.", "250")>>

====
